---- MODULE Spec2Model ----
(***************************************************************************)
(* Model of src/qrng.py: the quantum random number generator pipeline.     *)
(*                                                                         *)
(* main() runs five stages in sequence inside one try block:               *)
(*   setup_quantum_service, create_qrng_circuit,                           *)
(*   execute_on_quantum_hardware, extract_random_numbers, display_results. *)
(* Every call into the remote service or the plotting library may raise;   *)
(* the raise is a nondeterministic outcome of the step that makes the call.*)
(* execute_on_quantum_hardware and display_results are split at their      *)
(* library calls, each piece guarded by the program counter pc, so that    *)
(* the blocking wait of job.result() and the rendering branch are visible. *)
(***************************************************************************)
EXTENDS Integers, Sequences, FiniteSets, TLC

(***************************************************************************)
(* Bounds of the model.                                                    *)
(***************************************************************************)
MaxQubits == 2      \* num_qubits ranges over 1..MaxQubits
MaxKeys == 2        \* distinct outcomes in one outcome-count mapping
MaxCount == 2       \* occurrence count of one outcome
MaxShots == 4       \* num_shots ranges over -1..MaxShots

VARIABLES
    pc,              \* position in main()
    num_qubits,      \* NUM_QUBITS handed to create_qrng_circuit / display_results
    num_shots,       \* num_shots handed to execute_on_quantum_hardware
    circuit,         \* the QuantumCircuit built by create_qrng_circuit
    declared_max,    \* upper end of the range printed by create_qrng_circuit
    job_state,       \* "none", "submitted", "complete", "failed" (remote side)
    jobs_submitted,  \* number of sampler.run calls made
    counts,          \* outcome-count mapping returned by get_counts()
    random_numbers,  \* list returned by extract_random_numbers
    report,          \* what display_results printed
    render,          \* rendering paths attempted / failed, file saved
    error,           \* the exception raised inside the try block, or NoError
    diag_count,      \* times the troubleshooting text was printed
    outcome,         \* how main ended: returned value or propagated exception
    stages           \* stage functions of main in the order they were called

vars == <<pc, num_qubits, num_shots, circuit, declared_max, job_state,
          jobs_submitted, counts, random_numbers, report, render, error,
          diag_count, outcome, stages>>

NoValue == <<>>
Some(x) == <<x>>
NoError == "none"

----------------------------------------------------------------------------
(***************************************************************************)
(* Helpers on sequences and mappings.                                      *)
(***************************************************************************)
Range(s) == {s[i] : i \in DOMAIN s}

RECURSIVE SumSeq(_)
SumSeq(s) == IF s = <<>> THEN 0 ELSE s[1] + SumSeq(Tail(s))

RECURSIVE SumCounts(_)
SumCounts(c) ==
    IF DOMAIN c = {} THEN 0
    ELSE LET k == CHOOSE x \in DOMAIN c : TRUE
         IN  c[k] + SumCounts([y \in DOMAIN c \ {k} |-> c[y]])

\* Binary strings of length n, as sequences of the digits 0 and 1.
BitStrings(n) == [1..n -> {0, 1}]

\* The dict a job can deliver for an n-qubit circuit run num_shots times:
\* keys are n-character binary strings, values are occurrence counts that
\* add up to the shots taken (none when num_shots is not positive).
CountMappings(n, shots) ==
    LET total == IF shots > 0 THEN shots ELSE 0
        keysets == {K \in SUBSET BitStrings(n) : Cardinality(K) <= MaxKeys}
    IN  {c \in UNION {[K -> 0..MaxCount] : K \in keysets} : SumCounts(c) = total}

\* counts.items(): the (key, value) pairs in the dict's order, any order of
\* the keys being one the library may have inserted them in.
ItemOrders(c) ==
    {s \in [1..Cardinality(DOMAIN c) -> DOMAIN c] :
        \A i, j \in DOMAIN s : i # j => s[i] # s[j]}

----------------------------------------------------------------------------
(***************************************************************************)
(* extract_random_numbers (lines 140-170).                                 *)
(***************************************************************************)
\* int(binary_string, 2): most significant digit first.
BinToInt_lsb(s) ==
    LET RECURSIVE H(_)
        H(t) == IF t = <<>> THEN 0 ELSE t[1] + 2 * H(Tail(t))
    IN  H(s)

BinToInt_base10(s) ==
    LET RECURSIVE H(_)
        H(t) == IF t = <<>> THEN 0 ELSE 10 * H(SubSeq(t, 1, Len(t) - 1)) + t[Len(t)]
    IN  H(s)

BinToInt(s) ==
    LET RECURSIVE H(_)
        H(t) == IF t = <<>> THEN 0 ELSE 2 * H(SubSeq(t, 1, Len(t) - 1)) + t[Len(t)]
    IN  H(s)

\* [decimal_value] * count
Repeat_once(v, c) == <<v>>

Repeat(v, c) == [i \in 1..c |-> v]

\* The for loop: random_numbers.extend([decimal_value] * count) per item.
RECURSIVE Accumulate(_, _)
Accumulate(c, order) ==
    IF order = <<>> THEN <<>>
    ELSE Repeat(BinToInt(order[1]), c[order[1]]) \o Accumulate(c, Tail(order))

\* classical_random.shuffle(random_numbers): element i of the result is the
\* element the permutation p moves there.
Shuffle(s, p) == [i \in 1..Len(s) |-> s[p[i]]]

----------------------------------------------------------------------------
(***************************************************************************)
(* display_results (lines 176-228): the printed statistics.                *)
(***************************************************************************)
\* len(set(random_numbers))
UniqueValues_len(s) == Len(s)

UniqueValues(s) == Cardinality(Range(s))

SeqMin(s) == CHOOSE x \in Range(s) : \A y \in Range(s) : x <= y
SeqMax(s) == CHOOSE x \in Range(s) : \A y \in Range(s) : x >= y

\* f"{total/n:.2f}" in hundredths: the nearest hundredth to total/n.  An exact
\* tie needs n to be a multiple of 8 and is then decided by the binary double.
Format2f(total, n) == (200 * total + n) \div (2 * n)

NoReport == [shown |-> FALSE, total |-> 0, range_max |-> 0, unique |-> 0,
             min |-> NoValue, max |-> NoValue, mean |-> NoValue]

Statistics(nums, n) ==
    [shown |-> TRUE,
     total |-> Len(nums),
     range_max |-> 2^n - 1,
     unique |-> UniqueValues(nums),
     min |-> IF Len(nums) > 0 THEN Some(SeqMin(nums)) ELSE NoValue,
     max |-> IF Len(nums) > 0 THEN Some(SeqMax(nums)) ELSE NoValue,
     mean |-> IF Len(nums) > 0 THEN Some(Format2f(SumSeq(nums), Len(nums)))
              ELSE NoValue]

\* The distribution loop divides count by len(random_numbers) for each of the
\* (at most ten) listed outcomes: it raises when there is an outcome to list
\* and the list of numbers is empty.
TopN == 10

DistributionRaises(c, nums) == DOMAIN c # {} /\ TopN > 0 /\ Len(nums) = 0

NoRender == [attempted |-> {}, failed |-> {}, saved |-> FALSE]

----------------------------------------------------------------------------
Init ==
    /\ pc = "setup"
    /\ num_qubits \in 1..MaxQubits
    /\ num_shots \in -1..MaxShots
    /\ circuit = NoValue
    /\ declared_max = NoValue
    /\ job_state = "none"
    /\ jobs_submitted = 0
    /\ counts = NoValue
    /\ random_numbers = NoValue
    /\ report = NoReport
    /\ render = NoRender
    /\ error = NoError
    /\ diag_count = 0
    /\ outcome = [kind |-> "running"]
    /\ stages = <<>>

\* An exception raised at the current step: control goes to main's handler.
Raise(e) ==
    /\ error' = e
    /\ pc' = "except"

\* Step 1: setup_quantum_service (lines 16-32), called at line 249.
setup_quantum_service ==
    /\ pc = "setup"
    /\ stages' = Append(stages, "connect")
    /\ \/ /\ pc' = "create"
          /\ UNCHANGED error
       \/ Raise("AuthenticationError")
    /\ UNCHANGED <<num_qubits, num_shots, circuit, declared_max, job_state,
                   jobs_submitted, counts, random_numbers, report, render,
                   diag_count, outcome>>

\* Step 2: create_qrng_circuit (lines 38-71), called at line 252.
create_qrng_circuit ==
    /\ pc = "create"
    /\ stages' = Append(stages, "build")
    /\ circuit' = [qubits |-> num_qubits,
                   h |-> 0..(num_qubits - 1),
                   measured |-> 0..(num_qubits - 1)]
    /\ declared_max' = Some(2^num_qubits - 1)
    /\ pc' = "select"
    /\ UNCHANGED <<num_qubits, num_shots, job_state, jobs_submitted, counts,
                   random_numbers, report, render, error, diag_count, outcome>>

\* Step 3: execute_on_quantum_hardware (lines 77-134), called at line 259.
\* service.least_busy (line 94).
least_busy ==
    /\ pc = "select"
    /\ stages' = Append(stages, "execute")
    /\ \/ /\ pc' = "transpile"
          /\ UNCHANGED error
       \/ Raise("NoResourceAvailableError")
    /\ UNCHANGED <<num_qubits, num_shots, circuit, declared_max, job_state,
                   jobs_submitted, counts, random_numbers, report, render,
                   diag_count, outcome>>

\* generate_preset_pass_manager and pm.run (lines 103-104).
transpile ==
    /\ pc = "transpile"
    /\ \/ /\ pc' = "submit"
          /\ UNCHANGED error
       \/ Raise("TranspilerError")
    /\ UNCHANGED <<num_qubits, num_shots, circuit, declared_max, job_state,
                   jobs_submitted, counts, random_numbers, report, render,
                   diag_count, outcome, stages>>

\* Sampler(mode=backend), default_shots = num_shots, sampler.run (lines
\* 115-121).  num_shots is handed to the library as it is.
sampler_run_twice ==
    /\ pc = "submit"
    /\ \/ /\ jobs_submitted' = jobs_submitted + 2
          /\ job_state' = "submitted"
          /\ pc' = "wait"
          /\ UNCHANGED error
       \/ /\ Raise("SubmissionError")
          /\ UNCHANGED <<jobs_submitted, job_state>>
    /\ UNCHANGED <<num_qubits, num_shots, circuit, declared_max, counts,
                   random_numbers, report, render, diag_count, outcome, stages>>

sampler_run ==
    /\ pc = "submit"
    /\ \/ /\ jobs_submitted' = jobs_submitted + 1
          /\ job_state' = "submitted"
          /\ pc' = "wait"
          /\ UNCHANGED error
       \/ /\ Raise("SubmissionError")
          /\ UNCHANGED <<jobs_submitted, job_state>>
    /\ UNCHANGED <<num_qubits, num_shots, circuit, declared_max, counts,
                   random_numbers, report, render, diag_count, outcome, stages>>

\* The remote side takes the submitted job to a terminal state.
job_terminal ==
    /\ job_state = "submitted"
    /\ job_state' \in {"complete", "failed"}
    /\ UNCHANGED <<pc, num_qubits, num_shots, circuit, declared_max,
                   jobs_submitted, counts, random_numbers, report, render,
                   error, diag_count, outcome, stages>>

\* job.result() (line 124) blocks until the job is terminal.
ResultReady_nowait(js) == js \in {"submitted", "complete", "failed"}

ResultReady(js) == js \in {"complete", "failed"}

\* job.result() and get_counts() (lines 124-134).
job_result ==
    /\ pc = "wait"
    /\ ResultReady(job_state)
    /\ IF job_state = "failed"
       THEN /\ Raise("ExecutionError")
            /\ UNCHANGED counts
       ELSE /\ counts' \in CountMappings(num_qubits, num_shots)
            /\ pc' = "extract"
            /\ UNCHANGED error
    /\ UNCHANGED <<num_qubits, num_shots, circuit, declared_max, job_state,
                   jobs_submitted, random_numbers, report, render, diag_count,
                   outcome, stages>>

\* Step 4: extract_random_numbers (lines 140-170), called at line 264.
extract_random_numbers ==
    /\ pc = "extract"
    /\ stages' = Append(stages, "decode")
    /\ \E order \in ItemOrders(counts) :
         LET acc == Accumulate(counts, order)
         IN  \E p \in Permutations(1..Len(acc)) :
               random_numbers' = Shuffle(acc, p)
    /\ pc' = "display"
    /\ UNCHANGED <<num_qubits, num_shots, circuit, declared_max, job_state,
                   jobs_submitted, counts, report, render, error, diag_count,
                   outcome>>

\* Step 5: display_results, header and statistics (lines 180-195).
display_results ==
    /\ pc = "display"
    /\ stages' = Append(stages, "report")
    /\ report' = Statistics(random_numbers, num_qubits)
    /\ pc' = "distribution"
    /\ UNCHANGED <<num_qubits, num_shots, circuit, declared_max, job_state,
                   jobs_submitted, counts, random_numbers, render, error,
                   diag_count, outcome>>

\* display_results, the measurement distribution (lines 197-203).
display_distribution ==
    /\ pc = "distribution"
    /\ IF DistributionRaises(counts, random_numbers)
       THEN Raise("ZeroDivisionError")
       ELSE /\ pc' = "plot"
            /\ UNCHANGED error
    /\ UNCHANGED <<num_qubits, num_shots, circuit, declared_max, job_state,
                   jobs_submitted, counts, random_numbers, report, render,
                   diag_count, outcome, stages>>

\* plot_histogram (lines 207-208): a figure, None, or an exception.
plot_histogram ==
    /\ pc = "plot"
    /\ \/ /\ pc' = "save"
          /\ render' = [render EXCEPT !.attempted = @ \cup {"primary"}]
          /\ UNCHANGED error
       \/ /\ pc' = "fallback"
          /\ UNCHANGED <<render, error>>
       \/ /\ Raise("RenderingError")
          /\ render' = [render EXCEPT !.attempted = @ \cup {"primary"},
                                      !.failed = @ \cup {"primary"}]
    /\ UNCHANGED <<num_qubits, num_shots, circuit, declared_max, job_state,
                   jobs_submitted, counts, random_numbers, report, diag_count,
                   outcome, stages>>

\* fig is not None: fig.savefig and plt.show (lines 211-214).
savefig ==
    /\ pc = "save"
    /\ \/ /\ pc' = "finish"
          /\ render' = [render EXCEPT !.saved = TRUE]
          /\ UNCHANGED error
       \/ /\ Raise("RenderingError")
          /\ render' = [render EXCEPT !.failed = @ \cup {"primary"}]
    /\ UNCHANGED <<num_qubits, num_shots, circuit, declared_max, job_state,
                   jobs_submitted, counts, random_numbers, report, diag_count,
                   outcome, stages>>

\* fig is None: the bar chart drawn with matplotlib directly (lines 215-228).
fallback_render ==
    /\ pc = "fallback"
    /\ \/ /\ pc' = "finish"
          /\ render' = [render EXCEPT !.attempted = @ \cup {"fallback"},
                                      !.saved = TRUE]
          /\ UNCHANGED error
       \/ /\ Raise("RenderingError")
          /\ render' = [render EXCEPT !.attempted = @ \cup {"fallback"},
                                      !.failed = @ \cup {"fallback"}]
    /\ UNCHANGED <<num_qubits, num_shots, circuit, declared_max, job_state,
                   jobs_submitted, counts, random_numbers, report, diag_count,
                   outcome, stages>>

\* return random_numbers (lines 269-273).
main_return ==
    /\ pc = "finish"
    /\ pc' = "returned"
    /\ outcome' = [kind |-> "returned", value |-> random_numbers]
    /\ UNCHANGED <<num_qubits, num_shots, circuit, declared_max, job_state,
                   jobs_submitted, counts, random_numbers, report, render,
                   error, diag_count, stages>>

\* except Exception as e: print the troubleshooting tips, raise (lines 275-281).
main_except_swallow ==
    /\ pc = "except"
    /\ diag_count' = diag_count + 1
    /\ pc' = "returned"
    /\ outcome' = [kind |-> "returned", value |-> NoValue]
    /\ UNCHANGED <<num_qubits, num_shots, circuit, declared_max, job_state,
                   jobs_submitted, counts, random_numbers, report, render,
                   error, stages>>

main_except ==
    /\ pc = "except"
    /\ diag_count' = diag_count + 1
    /\ pc' = "raised"
    /\ outcome' = [kind |-> "raised", value |-> error]
    /\ UNCHANGED <<num_qubits, num_shots, circuit, declared_max, job_state,
                   jobs_submitted, counts, random_numbers, report, render,
                   error, stages>>

Next ==
    \/ setup_quantum_service
    \/ create_qrng_circuit
    \/ least_busy
    \/ transpile
    \/ sampler_run
    \/ job_terminal
    \/ job_result
    \/ extract_random_numbers
    \/ display_results
    \/ display_distribution
    \/ plot_histogram
    \/ savefig
    \/ fallback_render
    \/ main_return
    \/ main_except

Spec == Init /\ [][Next]_vars

----------------------------------------------------------------------------
(***************************************************************************)
(* Quantities computed from the outcome-count mapping alone, against which *)
(* the lists and reports the program produces are compared.                *)
(***************************************************************************)
Decoded == "decode" \in Range(stages)

\* Unsigned value of a binary string read most significant digit first.
MSBValue(s) == SumSeq([i \in 1..Len(s) |-> s[i] * 2^(Len(s) - i)])

Occurrences(s, v) == Cardinality({i \in DOMAIN s : s[i] = v})

ExpectedOccurrences(c, v) ==
    SumCounts([k \in {x \in DOMAIN c : MSBValue(x) = v} |-> c[k]])

ObservedValues(c) == {MSBValue(k) : k \in {x \in DOMAIN c : c[x] > 0}}

WeightedSum(c) == SumCounts([k \in DOMAIN c |-> MSBValue(k) * c[k]])

SetMin(S) == CHOOSE x \in S : \A y \in S : x <= y
SetMax(S) == CHOOSE x \in S : \A y \in S : x >= y

Abs(x) == IF x < 0 THEN -x ELSE x

StageOrder == <<"connect", "build", "execute", "decode", "report">>

EarlyErrors == {"AuthenticationError", "NoResourceAvailableError",
                "TranspilerError", "SubmissionError", "ExecutionError"}

----------------------------------------------------------------------------
\* C1: for every outcome-count mapping with non-negative counts, the list
\* returned by extract_random_numbers has as many elements as the counts of
\* the mapping add up to.
C1_LengthIsTotalCount ==
    Decoded => Len(random_numbers) = SumCounts(counts)

\* A decode of a mapping with two outcomes, one seen more than once and one
\* never seen.
C1_Witness ==
    /\ Decoded
    /\ \E k1, k2 \in DOMAIN counts : counts[k1] >= 2 /\ counts[k2] = 0
    /\ Len(random_numbers) >= 2

\* C2: the multiset of values returned by extract_random_numbers is fixed by
\* the mapping, whatever the shuffle did: each outcome string contributes its
\* most-significant-bit-first value exactly count times, and no other value
\* appears.
C2_MultisetFixedByMapping ==
    Decoded =>
        \A v \in Range(random_numbers) \cup {MSBValue(k) : k \in DOMAIN counts} :
            Occurrences(random_numbers, v) = ExpectedOccurrences(counts, v)

\* A decode of the mapping {"01": 1, "11": 2} whose shuffle left the list out
\* of ascending order.
C2_Witness ==
    /\ Decoded
    /\ \E k1, k2 \in DOMAIN counts :
          /\ counts[k1] = 1 /\ counts[k2] = 2
          /\ k1 = <<0, 1>> /\ k2 = <<1, 1>>
    /\ \E i, j \in DOMAIN random_numbers : i < j /\ random_numbers[i] > random_numbers[j]

\* C3: when the keys of the mapping are binary strings of length n, every
\* integer returned by extract_random_numbers lies in 0 .. 2^n - 1.
C3_ValuesInRange ==
    Decoded =>
        \A k \in DOMAIN counts : \A i \in DOMAIN random_numbers :
            random_numbers[i] \in 0..(2^Len(k) - 1)

\* A decode of two-character keys that yields both ends of the range, 0 and 3.
C3_Witness ==
    /\ Decoded
    /\ \A k \in DOMAIN counts : Len(k) = 2
    /\ {0, 3} \subseteq Range(random_numbers)
    /\ declared_max = Some(3)

\* C4: the stages run in the order connect, build, execute, decode, report;
\* decode and report start only once the job has been seen complete, and
\* never run when the job failed or an earlier stage raised.
C4_StagesInOrderAfterTerminalJob ==
    /\ Len(stages) <= Len(StageOrder)
    /\ stages = SubSeq(StageOrder, 1, Len(stages))
    /\ ("decode" \in Range(stages) \/ "report" \in Range(stages)) =>
           job_state = "complete"
    /\ (job_state = "failed" \/ error \in EarlyErrors) =>
           /\ "decode" \notin Range(stages)
           /\ "report" \notin Range(stages)
           /\ pc \notin {"extract", "display", "distribution", "plot", "save", "fallback", "finish", "returned"}

\* A run in which all five stages ran and main returned.
C4_Witness ==
    /\ pc = "returned"
    /\ stages = StageOrder
    /\ job_state = "complete"

\* C5: a failure of the rendering step alone is not fatal: after the primary
\* path fails the fallback path is attempted, and a run whose only failure is
\* in rendering ends by returning the sample set.  Stated for the runs with a
\* positive shot count, once main has ended.
C5_RenderingFailureNotFatal ==
    (num_shots > 0 /\ render.failed # {} /\ pc \in {"returned", "raised"}) =>
        /\ "primary" \in render.failed => "fallback" \in render.attempted
        /\ pc = "returned"
        /\ outcome = [kind |-> "returned", value |-> random_numbers]

\* C6: a run in which a stage raised prints the troubleshooting text exactly
\* once and ends by re-raising that same error, never returning; a run in
\* which nothing raised prints no troubleshooting text and returns exactly the
\* list the decoder produced.
C6_ErrorReportedOnceAndReraised ==
    /\ diag_count <= 1
    /\ error = NoError => diag_count = 0
    /\ error # NoError => pc \in {"except", "raised"} /\ outcome.kind # "returned"
    /\ pc = "raised" =>
          /\ error # NoError
          /\ diag_count = 1
          /\ outcome = [kind |-> "raised", value |-> error]
    /\ pc = "returned" =>
          /\ error = NoError
          /\ Decoded
          /\ outcome = [kind |-> "returned", value |-> random_numbers]

\* A run ended by the re-raise of an error that came from the report stage.
C6_Witness ==
    /\ pc = "raised"
    /\ "report" \in Range(stages)
    /\ diag_count = 1
    /\ outcome.value = error

\* C7: called with a shot count of 0 or less, execute_on_quantum_hardware
\* submits no job.
C7_NonPositiveShotsNeverSubmitted ==
    num_shots <= 0 => jobs_submitted = 0 /\ job_state = "none"

\* C8 as stated: for every non-empty mapping the report gives the total
\* count, the number of distinct values with a positive count, their minimum
\* and maximum, and a mean equal to the count-weighted sum over the total.
C8_StatisticsForNonEmptyMapping ==
    (report.shown /\ DOMAIN counts # {}) =>
        /\ report.total = SumCounts(counts)
        /\ report.unique = Cardinality(ObservedValues(counts))
        /\ report.min # NoValue
        /\ report.max # NoValue
        /\ report.mean # NoValue
        /\ report.min = Some(SetMin(ObservedValues(counts)))
        /\ report.max = Some(SetMax(ObservedValues(counts)))
        /\ report.mean[1] * SumCounts(counts) = 100 * WeightedSum(counts)

\* C8 amended: for every mapping whose counts add up to a positive total the
\* report gives the total count, the number of distinct values with a
\* positive count, their minimum and maximum, and a mean that is the
\* count-weighted sum over the total to the two decimals printed (within half
\* a hundredth of the quotient).  For a mapping whose counts are all zero the
\* report gives count 0 and 0 distinct values, and no minimum, maximum or mean.
C8_StatisticsForPositiveTotal ==
    /\ (report.shown /\ SumCounts(counts) > 0) =>
          /\ report.total = SumCounts(counts)
          /\ report.unique = Cardinality(ObservedValues(counts))
          /\ report.min = Some(SetMin(ObservedValues(counts)))
          /\ report.max = Some(SetMax(ObservedValues(counts)))
          /\ report.mean # NoValue
          /\ 2 * Abs(report.mean[1] * SumCounts(counts) - 100 * WeightedSum(counts))
                <= SumCounts(counts)
    /\ (report.shown /\ SumCounts(counts) = 0) =>
          /\ report.total = 0
          /\ report.unique = 0
          /\ report.min = NoValue /\ report.max = NoValue /\ report.mean = NoValue

\* A report on a mapping with two observed values, three measurements in all
\* and a mean that does not end after two decimals.
C8_Witness ==
    /\ report.shown
    /\ SumCounts(counts) = 3
    /\ report.unique = 2
    /\ report.mean # NoValue
    /\ report.mean[1] * 3 # 100 * WeightedSum(counts)

\* C9: at most one job is submitted and no stage runs twice; once an error
\* has been raised no stage starts and no job is submitted.
C9_NoRetry ==
    /\ [](/\ jobs_submitted <= 1
          /\ \A i, j \in DOMAIN stages : i # j => stages[i] # stages[j])
    /\ [][error # NoError =>
            /\ jobs_submitted' = jobs_submitted
            /\ stages' = stages
            /\ job_state' = job_state
            /\ pc' \in {"except", "raised"}]_vars

\* A run whose one job failed remotely and that ended without a second
\* submission.
C9_Witness ==
    /\ pc = "raised"
    /\ error = "ExecutionError"
    /\ job_state = "failed"
    /\ jobs_submitted = 1

\* C10: for every mapping whose counts add up to zero the statistics step of
\* display_results completes without raising: minimum, maximum and mean are
\* skipped and no percentage is computed over a zero total.
C10_ZeroTotalReportDoesNotRaise ==
    (report.shown /\ SumCounts(counts) = 0) =>
        /\ report.min = NoValue /\ report.max = NoValue /\ report.mean = NoValue
        /\ error # "ZeroDivisionError"

====
